---- MODULE Spec2Model ----
(***************************************************************************)
(* Model of the remote-upsert pipeline of Spreadsheet-to-Notion:           *)
(*   - RateLimiter and NotionApiClient (src/core/NotionApiClient.ts)       *)
(*   - TriggerManager (src/core/TriggerManager.ts)                         *)
(* A "task" is one asynchronous activation: one processImport run, or one  *)
(* public client call made directly.  One action is one synchronous        *)
(* segment of the code between two awaits.  Spec is the TriggerManager     *)
(* with the client under it; ClientSpec is the client called directly.     *)
(*                                                                         *)
(* Scheduling is that of the JavaScript event loop: the continuation of an *)
(* await on a settled promise is a microtask, and every microtask runs     *)
(* before the next timer callback and before the clock is read again       *)
(* (UrlFetchApp.fetch is a blocking call inside makeRequest).  A timer     *)
(* callback may run later than its delay, never earlier.                   *)
(***************************************************************************)
EXTENDS Integers, Sequences, FiniteSets, TLC

(* Time is kept as durations, in milliseconds.  The code compares          *)
(* Date.now() - lastRequestTime with minInterval only, so that duration is *)
(* kept saturated at RATE_LIMIT_DELAY.                                     *)
VARIABLES
  sinceLastRequest, \* Date.now() - RateLimiter.lastRequestTime
  isProcessing,     \* processingStatus.isProcessing
  errorHistory,     \* processingStatus.errorHistory
  sheet,            \* primary-key cell of every data row of the import sheet
  lastAlert,        \* the latest call of SpreadsheetApp.getUi().alert, and
                    \* whether the dialog was shown
  tasks,            \* the asynchronous activations, by slot
  started,          \* number of activations begun so far
  skipWarned,       \* 'Processing already in progress, skipping' was logged
  editRejected      \* the promise of some onEdit call was rejected

vars == <<sinceLastRequest, isProcessing, errorHistory, sheet, lastAlert,
          tasks, started, skipWarned, editRejected>>

----------------------------------------------------------------------------
(* Program constants *)

RATE_LIMIT_DELAY == 334
MAX_RETRIES == 3
RETRY_DELAYS == <<1000, 2000, 4000>>
DEFAULT_RETRY_DELAY == 4000
COLUMN_CHECKBOX == 1
COLUMN_PRIMARY_KEY == 2
DATA_START == 3
MAX_TEXT_LENGTH == 2000
MAX_ERROR_HISTORY == 100

(* Bounds of the model *)

MaxRuns == 2           \* edit events and calls of processImport arrive in
                       \* Spec until this many runs and denied edits began
MaxEdits == 1          \* the same, for the edit events of TriggerSpec
MaxFailures == 102     \* denied edits that arrive in HistorySpec
MaxCalls == 3          \* client calls made in one behaviour of ClientSpec
IdleStep == 200        \* time that passes in one step with no timer pending

(* At most two activations overlap; the slot of a returned activation is   *)
(* taken again when no unused slot is left.                                *)
Slots == {1, 2}
Rows == {2}
Columns == {COLUMN_CHECKBOX, COLUMN_PRIMARY_KEY}

(* Durations saturate at the only value they are compared with *)
Saturated(d) == IF d > RATE_LIMIT_DELAY THEN RATE_LIMIT_DELAY ELSE d

----------------------------------------------------------------------------
(* Cell values.  A string is a sequence of characters so that trim() is     *)
(* computed; " " is the whitespace character.                               *)

StringCell(s) == [type |-> "string", text |-> s]
NumberCell(s) == [type |-> "number", text |-> s]
BooleanCell(s) == [type |-> "boolean", text |-> s]
EmptyCell == StringCell(<< >>)

CellValues ==
  { EmptyCell, StringCell(<<" ">>), StringCell(<<" ", "p", " ">>),
    NumberCell(<<"7">>) }

(* The id Notion gives to the page created by the n-th activation *)
newPageId(n) == <<"n", ToString(n)>>

RECURSIVE trimStart(_)
trimStart(s) ==
  IF s = << >> THEN << >>
  ELSE IF Head(s) = " " THEN trimStart(Tail(s)) ELSE s

RECURSIVE trimEnd(_)
trimEnd(s) ==
  IF s = << >> THEN << >>
  ELSE IF s[Len(s)] = " " THEN trimEnd(SubSeq(s, 1, Len(s) - 1)) ELSE s

trim(s) == trimEnd(trimStart(s))

(* A test of the slot that takes a padded identifier for no identifier *)
hasExistingPageId_unpadded(cell) ==
  /\ cell.text # << >>
  /\ cell.type = "string"
  /\ trim(cell.text) = cell.text

(* existingPageId && typeof existingPageId === 'string'                     *)
(*   && existingPageId.trim()                                               *)
hasExistingPageId(cell) ==
  /\ cell.text # << >>
  /\ cell.type = "string"
  /\ trim(cell.text) # << >>

----------------------------------------------------------------------------
(* Column mappings.  Names are sequences of characters, as cell texts are.  *)

DATA_TYPES ==
  { "title", "rich_text", "number", "select", "multi_select", "date",
    "checkbox", "url", "email", "phone_number" }

MAX_PROPERTY_NAME_LENGTH == 100

reservedWords ==
  { <<"i", "d">>,
    <<"c", "r", "e", "a", "t", "e", "d", "_", "t", "i", "m", "e">>,
    <<"l", "a", "s", "t", "_", "e", "d", "i", "t", "e", "d", "_",
      "t", "i", "m", "e">>,
    <<"c", "r", "e", "a", "t", "e", "d", "_", "b", "y">>,
    <<"l", "a", "s", "t", "_", "e", "d", "i", "t", "e", "d", "_", "b", "y">> }

(* String.prototype.toLowerCase, over the letters A to Z *)
upperCase ==
  <<"A", "B", "C", "D", "E", "F", "G", "H", "I", "J", "K", "L", "M",
    "N", "O", "P", "Q", "R", "S", "T", "U", "V", "W", "X", "Y", "Z">>
lowerCase ==
  <<"a", "b", "c", "d", "e", "f", "g", "h", "i", "j", "k", "l", "m",
    "n", "o", "p", "q", "r", "s", "t", "u", "v", "w", "x", "y", "z">>
toLowerCase(s) ==
  [i \in DOMAIN s |->
     IF \E k \in DOMAIN upperCase : upperCase[k] = s[i]
       THEN lowerCase[CHOOSE k \in DOMAIN upperCase : upperCase[k] = s[i]]
       ELSE s[i]]

ColumnMapping(column, property, dataType, isTarget) ==
  [spreadsheetColumn |-> column, notionPropertyName |-> property,
   dataType |-> dataType, isTarget |-> isTarget, isRequired |-> FALSE]

(* Validator.validateMapping *)
validateMapping(mapping) ==
  LET name == mapping.notionPropertyName
      errors ==
        (IF trim(mapping.spreadsheetColumn) = << >>
           THEN <<"Spreadsheet column name is required">> ELSE << >>)
        \o (IF trim(name) = << >>
           THEN <<"Notion property name is required">> ELSE << >>)
        \o (IF mapping.dataType = ""
           THEN <<"Data type is required">> ELSE << >>)
        \o (IF mapping.dataType # "" /\ mapping.dataType \notin DATA_TYPES
           THEN <<"Invalid data type">> ELSE << >>)
        \o (IF name # << >> /\ Len(name) > MAX_PROPERTY_NAME_LENGTH
           THEN <<"Notion property name exceeds maximum length">> ELSE << >>)
        \o (IF name # << >> /\ toLowerCase(name) \in reservedWords
           THEN <<"reserved property name">> ELSE << >>)
  IN [valid |-> errors = << >>, errors |-> errors]

(* A search that takes every element for a duplicate *)
findDuplicates_all(array) == { array[j] : j \in DOMAIN array }

(* Validator.findDuplicates *)
findDuplicates(array) ==
  { array[j] : j \in { j \in DOMAIN array :
                         \E i \in 1..(j - 1) : array[i] = array[j] } }

(* The errors of the mappings from the index-th on, each with its index *)
RECURSIVE mappingErrors(_, _)
mappingErrors(mappings, index) ==
  IF index > Len(mappings) THEN << >>
  ELSE LET result == validateMapping(mappings[index]) IN
       [k \in DOMAIN result.errors |->
          [mapping |-> index, error |-> result.errors[k]]]
       \o mappingErrors(mappings, index + 1)

(* Validator.validateMappings *)
validateMappings(mappings) ==
  IF mappings = << >>
    THEN [valid |-> FALSE,
          errors |-> << [mapping |-> 0, error |-> "Column mappings are required"] >>]
    ELSE
      LET nonEmpty(x) == x # << >>
          spreadsheetColumns ==
            SelectSeq([i \in DOMAIN mappings |->
                         trim(mappings[i].spreadsheetColumn)], nonEmpty)
          notionProperties ==
            SelectSeq([i \in DOMAIN mappings |->
                         trim(mappings[i].notionPropertyName)], nonEmpty)
          titleMappings ==
            { i \in DOMAIN mappings :
                mappings[i].dataType = "title" /\ mappings[i].isTarget }
          errors ==
            mappingErrors(mappings, 1)
            \o (IF findDuplicates(spreadsheetColumns) # {}
                  THEN << [mapping |-> 0,
                           error |-> "Duplicate spreadsheet columns"] >>
                  ELSE << >>)
            \o (IF findDuplicates(notionProperties) # {}
                  THEN << [mapping |-> 0,
                           error |-> "Duplicate Notion properties"] >>
                  ELSE << >>)
            \o (IF titleMappings = {}
                  THEN << [mapping |-> 0,
                           error |-> "At least one title property mapping is required"] >>
                  ELSE IF Cardinality(titleMappings) > 1
                    THEN << [mapping |-> 0,
                             error |-> "Only one title property mapping is allowed"] >>
                    ELSE << >>)
      IN [valid |-> errors = << >>, errors |-> errors]

(* Mapping lists as ConfigManager.getColumnMappings returns them: every     *)
(* entry has a column, a property name and a data type.                     *)
NameProperty == <<"N", "a", "m", "e">>
NoteProperty == <<"N", "o", "t", "e">>
LongProperty == [i \in 1..(MAX_PROPERTY_NAME_LENGTH + 1) |-> "x"]

TitleAndNote ==
  << ColumnMapping(<<"C">>, NameProperty, "title", TRUE),
     ColumnMapping(<<"D">>, NoteProperty, "rich_text", TRUE) >>
TwoTitles ==
  << ColumnMapping(<<"C">>, NameProperty, "title", TRUE),
     ColumnMapping(<<"D">>, NoteProperty, "title", TRUE) >>
DuplicateProperty ==
  << ColumnMapping(<<"C">>, NameProperty, "title", TRUE),
     ColumnMapping(<<"D">>, NoteProperty, "rich_text", TRUE),
     ColumnMapping(<<"E">>, NoteProperty, "number", TRUE) >>
ReservedProperty ==
  << ColumnMapping(<<"C">>, NameProperty, "title", TRUE),
     ColumnMapping(<<"D">>, <<"I", "D">>, "rich_text", TRUE) >>
OverlongProperty ==
  << ColumnMapping(<<"C">>, NameProperty, "title", TRUE),
     ColumnMapping(<<"D">>, LongProperty, "rich_text", TRUE) >>
NoTitle ==
  << ColumnMapping(<<"C">>, NameProperty, "rich_text", TRUE) >>

MappingLists ==
  { TitleAndNote, TwoTitles, DuplicateProperty, ReservedProperty,
    OverlongProperty, NoTitle }

(* DataMapper.mapRowToNotionPage throws 'No title property found in mapped  *)
(* data' unless a target mapping of type title gave a property.             *)
hasTitleMapping(mappings) ==
  \E i \in DOMAIN mappings :
    mappings[i].isTarget /\ mappings[i].dataType = "title"

----------------------------------------------------------------------------
(* Errors *)

(* An error is its ErrorType, the status code of an ApiError, and, where    *)
(* the model follows it, its message as a sequence of pieces of text.      *)
NoError == [type |-> "none", statusCode |-> 0, message |-> << >>]
(* new ApiError(`API request failed: ${responseCode}`, responseCode, ...),   *)
(* or new ApiError('Network or parsing error', 0, ...)                       *)
ApiError(code) ==
  [type |-> "API_ERROR", statusCode |-> code,
   message |-> IF code = 0 THEN <<"Network or parsing error">>
               ELSE <<"API request failed: ", ToString(code)>>]
TypedError(t) == [type |-> t, statusCode |-> 0, message |-> << >>]

(* Array.prototype.join(', ') *)
RECURSIVE join(_)
join(errors) ==
  IF errors = << >> THEN << >>
  ELSE IF Len(errors) = 1 THEN errors
  ELSE <<Head(errors), ", ">> \o join(Tail(errors))

(* A message that gives the first validation error only *)
validationMessage_first(errors) == <<"validation: ", Head(errors)>>

(* `データ検証エラー: ${validationResult.errors.join(', ')}` *)
validationMessage(errors) == <<"validation: ">> \o join(errors)

(* new SpreadsheetToNotionError(message, ErrorType.VALIDATION_ERROR) *)
ValidationError(errors) ==
  [type |-> "VALIDATION_ERROR", statusCode |-> 0,
   message |-> validationMessage(errors)]

(* The error lists of a ValidationResult of Validator.validateRowData: one *)
(* error per failing field, in mapping order; none when the row is valid.  *)
ValidationErrors == { << >>, <<"e1", "e2">> }

(* Dialogs *)
NoAlert == [title |-> "none", message |-> << >>, shown |-> FALSE]
Alert(title, message, shown) ==
  [title |-> title, message |-> message, shown |-> shown]

(* Outcomes of one UrlFetchApp.fetch: a response code, or an exception *)
ResponseCodes == {200, 400, 429, 500}
Response(c) == [threw |-> FALSE, code |-> c]
Threw == [threw |-> TRUE, code |-> 0]
FetchOutcomes == { Response(c) : c \in ResponseCodes } \cup { Threw }

(* The answers to a request with a wrong token and with a wrong database   *)
(* or page id                                                               *)
RefusedOutcomes == { Response(401), Response(404) }

(* The sequences of outcomes the remote side gives to one operation *)
ResponseScripts ==
  { << Response(200) >>,
    << Response(400) >>,
    << Response(401) >>,
    << Response(404) >>,
    << Threw >>,
    << Response(500), Response(200) >>,
    << Response(429), Response(429), Response(429), Response(429),
       Response(429) >> }

IsPrefix(s, r) == Len(s) <= Len(r) /\ SubSeq(r, 1, Len(s)) = s
Scripted(requests) == \E r \in ResponseScripts : IsPrefix(requests, r)

(* NotionApiClient.makeRequest: the response, or the ApiError it throws *)
makeRequest(o) ==
  IF o.threw
    THEN [ok |-> FALSE, error |-> ApiError(0)]
    ELSE IF o.code >= 400
      THEN [ok |-> FALSE, error |-> ApiError(o.code)]
      ELSE [ok |-> TRUE, error |-> NoError]

(* A shouldRetry that retries every error status *)
shouldRetry_anyStatus(error) ==
  error.type = "API_ERROR" /\ error.statusCode >= 400

(* NotionApiClient.shouldRetry.  Every error makeRequest throws is an      *)
(* ApiError; the test of the message of any other error is never reached.  *)
shouldRetry(error) ==
  IF error.type = "API_ERROR"
    THEN error.statusCode = 429 \/ error.statusCode >= 500
    ELSE FALSE

(* A limit test that is off by one: retryCount > this.MAX_RETRIES *)
retriesExhausted_late(retryCount) == retryCount > MAX_RETRIES

(* retryCount >= this.MAX_RETRIES *)
retriesExhausted(retryCount) == retryCount >= MAX_RETRIES

(* A schedule that repeats its first delay *)
retryDelay_flat(retryCount) == RETRY_DELAYS[1]

(* this.RETRY_DELAYS[retryCount] || 4000, retryCount counted from 0 *)
retryDelay(retryCount) ==
  IF retryCount + 1 \in DOMAIN RETRY_DELAYS
    THEN RETRY_DELAYS[retryCount + 1]
    ELSE DEFAULT_RETRY_DELAY

----------------------------------------------------------------------------
(* Tasks *)

NoTask ==
  [ pc         |-> "none",    \* none, config, ratewait, request, backoff, done
    kind       |-> "none",    \* import, call, validate, checkbox, map
    serial     |-> 0,         \* this is the serial-th activation
    row        |-> 0,
    step       |-> "none",    \* how the steps before the remote call ended
    mappings   |-> << >>,     \* what getColumnMappings returned
    errors     |-> << >>,     \* validationResult.errors
    op         |-> "none",    \* create, update, fetch, describe
    pageId     |-> << >>,     \* the id passed to updatePage
    pkRead     |-> EmptyCell, \* the primary-key cell as read by getRowData
    retryCount |-> 0,
    remaining  |-> 0,         \* time left of the pending setTimeout
    acquired   |-> 0,         \* times this call stored lastRequestTime
    waited     |-> 0,         \* the delay waitForRateLimit slept
    alone      |-> TRUE,      \* no other call was pending during this call
    requests   |-> << >>,     \* the outcomes of the fetches of this call
    sleeps     |-> << >>,     \* the delays of the backoff sleeps of this call
    keyLog     |-> "none",    \* recorded, failed: what recordPrimaryKey logged
    result     |-> "none",    \* success, failure
    error      |-> NoError,
    resultId   |-> << >>,
    rowData    |-> << >>,     \* the values given to the Validator or DataMapper
    property   |-> [threw |-> FALSE, checkbox |-> FALSE],
                              \* what convertToCheckbox returned
    payload    |-> [threw |-> FALSE, message |-> "none", properties |-> << >>] ]
                              \* what mapRowToNotionPage returned or threw

Unused == {t \in Slots : tasks[t].pc = "none"}
Returned == {t \in Slots : tasks[t].pc = "done"}
InFlight(t) == tasks[t].pc \notin {"none", "done"}

(* Between waitForRateLimit() and the return of makeRequestWithRetry *)
inClient(task) == task.pc \in {"ratewait", "request", "backoff"}

(* A continuation is queued as a microtask *)
microtasksPending == \E t \in Slots : tasks[t].pc \in {"config", "request"}

Min(S) == CHOOSE x \in S : \A y \in S : x <= y

(* The slot of the next activation *)
freeSlot == (Unused \cup Returned) # {}
nextSlot == IF Unused # {} THEN Min(Unused) ELSE Min(Returned)

Init ==
  /\ sinceLastRequest = RATE_LIMIT_DELAY
  /\ isProcessing = FALSE
  /\ errorHistory = << >>
  /\ \E cell \in CellValues : sheet = [r \in Rows |-> cell]
  /\ lastAlert = NoAlert
  /\ tasks = [t \in Slots |-> NoTask]
  /\ started = 0
  /\ skipWarned = FALSE
  /\ editRejected = FALSE

----------------------------------------------------------------------------
(* RateLimiter.waitForRateLimit *)

(* timeSinceLastRequest < this.minInterval *)
mustWait(timeSinceLastRequest) == timeSinceLastRequest < RATE_LIMIT_DELAY

(* A wait that is one millisecond short *)
waitTime_short(timeSinceLastRequest) ==
  RATE_LIMIT_DELAY - timeSinceLastRequest - 1

(* waitTime = this.minInterval - timeSinceLastRequest *)
waitTime(timeSinceLastRequest) == RATE_LIMIT_DELAY - timeSinceLastRequest

(* The call of task t, whose record is rec, enters the client: a call that *)
(* is pending at that moment is no longer alone, and neither is t.         *)
entered(t, rec) ==
  LET others == {u \in Slots \ {t} : inClient(tasks[u])} IN
  [u \in Slots |->
     IF u = t THEN [rec EXCEPT !.alone = (others = {})]
     ELSE IF u \in others THEN [tasks[u] EXCEPT !.alone = FALSE]
     ELSE tasks[u]]

(* The synchronous part of waitForRateLimit, run by the task whose record   *)
(* is rec: either the sleep is started, or the dispatch time is recorded.   *)
waitForRateLimit(t, rec) ==
  LET timeSinceLastRequest == sinceLastRequest IN
  IF mustWait(timeSinceLastRequest)
    THEN /\ tasks' = entered(t,
                [rec EXCEPT !.pc = "ratewait",
                            !.remaining = waitTime(timeSinceLastRequest),
                            !.waited = waitTime(timeSinceLastRequest)])
         /\ UNCHANGED sinceLastRequest
    ELSE /\ tasks' = entered(t,
                [rec EXCEPT !.pc = "request",
                            !.acquired = @ + 1])
         /\ sinceLastRequest' = 0

(* The continuation of waitForRateLimit after its sleep:                    *)
(* this.lastRequestTime = Date.now()                                        *)
RateLimitWake(t) ==
  /\ ~microtasksPending
  /\ tasks[t].pc = "ratewait"
  /\ tasks[t].remaining = 0
  /\ sinceLastRequest' = 0
  /\ tasks' = [tasks EXCEPT ![t].pc = "request",
                            ![t].acquired = @ + 1]
  /\ UNCHANGED <<isProcessing, errorHistory, sheet, lastAlert, started, skipWarned, editRejected>>

----------------------------------------------------------------------------
(* TriggerManager.handleError *)

(* A history that is never trimmed *)
pushErrorHistory_unbounded(history, entry) == Append(history, entry)

(* A handleError that records nothing *)
pushErrorHistory_dropped(history, entry) == history

(* errorHistory.push(...); if (length > 100) errorHistory.shift() *)
pushErrorHistory(history, entry) ==
  LET pushed == Append(history, entry) IN
  IF Len(pushed) > MAX_ERROR_HISTORY THEN Tail(pushed) ELSE pushed

(* The user message chosen by the switch on error.type *)
userMessage(error) ==
  CASE error.type = "CONFIG_ERROR"     -> <<"config">>
    [] error.type = "VALIDATION_ERROR" -> <<"data problem: ">> \o error.message
    [] error.type = "API_ERROR"        -> <<"api">>
    [] error.type = "PERMISSION_ERROR" -> <<"permission">>
    [] OTHER                           -> <<"error: ">> \o error.message

(* TriggerManager.showErrorMessage: a failure of the dialog is swallowed *)
showErrorMessage(message, uiOk) ==
  lastAlert' = Alert("error", message, uiOk)

handleError(error, context, rowNumber, uiOk) ==
  /\ errorHistory' = pushErrorHistory(errorHistory,
        [error |-> error, context |-> context, rowNumber |-> rowNumber])
  /\ showErrorMessage(userMessage(error), uiOk)

(* TriggerManager.showSuccessMessage: a failure of the dialog is swallowed *)
showSuccessMessage(uiOk) ==
  lastAlert' = Alert("success", <<"done">>, uiOk)

----------------------------------------------------------------------------
(* TriggerManager.processImport *)

(* The synchronous head of processImport, up to await getConfig() *)
startImport(t, rowNumber) ==
  /\ tasks' = [tasks EXCEPT ![t] =
        [NoTask EXCEPT !.pc = "config", !.kind = "import",
                       !.serial = started + 1, !.row = rowNumber]]
  /\ started' = started + 1
  /\ isProcessing' = TRUE

(* A finally block that leaves the flag as it is *)
processingAfterRun_kept == isProcessing

(* finally { this.processingStatus.isProcessing = false } *)
processingAfterRun == FALSE

(* catch: handleError, return {success: false}; finally *)
failImport(t, rec, error, uiOk) ==
  /\ tasks' = [tasks EXCEPT ![t] =
        [rec EXCEPT !.pc = "done", !.result = "failure", !.error = error]]
  /\ handleError(error, "processImport", rec.row, uiOk)
  /\ isProcessing' = processingAfterRun

(* The steps of processImport before the remote call, and what they throw:  *)
(* getConfig or getColumnMappings (configError), getRowData (rowReadError), *)
(* validateRowData reporting the row invalid, and mapRowToNotionPage        *)
(* (mappingError: the conversion of a required field failed, or no title    *)
(* property was mapped).                                                    *)
StepOutcomes == {"ok", "configError", "rowReadError", "invalid", "mappingError"}

(* A processImport that goes on after mapRowToNotionPage has thrown *)
stepError_lenient(outcome, errors) ==
  CASE outcome = "configError"  -> TypedError("CONFIG_ERROR")
    [] outcome = "rowReadError" -> TypedError("CONFIG_ERROR")
    [] outcome = "invalid"      -> ValidationError(errors)
    [] OTHER                    -> NoError

stepError(outcome, errors) ==
  CASE outcome = "configError"  -> TypedError("CONFIG_ERROR")
    [] outcome = "rowReadError" -> TypedError("CONFIG_ERROR")
    [] outcome = "invalid"      -> ValidationError(errors)
    [] outcome = "mappingError" -> TypedError("MAPPING_ERROR")
    [] OTHER                    -> NoError

(* processImport called directly, or through processImportManually *)
ProcessImport(rowNumber) ==
  /\ freeSlot
  /\ startImport(nextSlot, rowNumber)
  /\ UNCHANGED <<sinceLastRequest, errorHistory, sheet, lastAlert, skipWarned, editRejected>>

(* processImport from the resolution of getConfig() up to the await inside  *)
(* updatePage / createPage                                                  *)
ProcessRow(t, mappings, outcome, errors, uiOk) ==
  /\ tasks[t].pc = "config"
  /\ (outcome = "invalid") = (errors # << >>)
  /\ outcome = "configError" => mappings = TitleAndNote
  /\ outcome = "ok" => hasTitleMapping(mappings)
  /\ IF stepError(outcome, errors) # NoError
       THEN /\ failImport(t, [tasks[t] EXCEPT
                                !.step = outcome,
                                !.mappings = IF outcome = "configError"
                                               THEN << >> ELSE mappings,
                                !.errors = errors],
                         stepError(outcome, errors), uiOk)
            /\ UNCHANGED sinceLastRequest
       ELSE LET existingPageId == sheet[tasks[t].row]
                update == hasExistingPageId(existingPageId)
                rec == [tasks[t] EXCEPT
                          !.step = outcome,
                          !.mappings = mappings,
                          !.pkRead = existingPageId,
                          !.op = IF update THEN "update" ELSE "create",
                          !.pageId = IF update THEN trim(existingPageId.text)
                                               ELSE << >>]
            IN /\ uiOk
               /\ waitForRateLimit(t, rec)
               /\ UNCHANGED <<isProcessing, errorHistory, lastAlert>>
  /\ UNCHANGED <<sheet, started, skipWarned, editRejected>>

----------------------------------------------------------------------------
(* Public client calls made directly *)

ClientOps == {"create", "update", "fetch", "describe"}

(* createPage / updatePage / getPage / getDatabaseInfo up to their await     *)
(* waitForRateLimit()                                                       *)
ClientCall(op) ==
  /\ started < MaxCalls
  /\ freeSlot
  /\ waitForRateLimit(nextSlot,
        [NoTask EXCEPT !.kind = "call",
                       !.serial = started + 1, !.op = op])
  /\ started' = started + 1
  /\ UNCHANGED <<isProcessing, errorHistory, sheet, lastAlert, skipWarned, editRejected>>

----------------------------------------------------------------------------
(* NotionApiClient.makeRequestWithRetry *)

(* A recordPrimaryKey that writes nothing *)
recordPrimaryKey_skipped(rowNumber, pageId, writeOk) == UNCHANGED sheet

(* TriggerManager.recordPrimaryKey: setValue(pageId), failures swallowed *)
recordPrimaryKey(rowNumber, pageId, writeOk) ==
  sheet' = IF writeOk THEN [sheet EXCEPT ![rowNumber] = StringCell(pageId)]
                      ELSE sheet

(* Logger.info('Primary key recorded') / Logger.error('Failed to record      *)
(* primary key')                                                             *)
primaryKeyLog(writeOk) == IF writeOk THEN "recorded" ELSE "failed"

(* A run that fails when the write of the identifier fails *)
resultAfterCreate_strict(writeOk) == IF writeOk THEN "success" ELSE "failure"

(* The result of a run whose createPage returned: recordPrimaryKey returns  *)
(* normally whether or not its write failed                                 *)
resultAfterCreate(writeOk) == "success"

(* A run that records the id after an update as well *)
recordsPrimaryKey_always(op) == TRUE

(* recordPrimaryKey is called in the else branch, after createPage *)
recordsPrimaryKey(op) == op = "create"

(* The return of a successful call to its caller *)
succeed(t, rec, writeOk, uiOk) ==
  LET responseId == IF rec.op = "update" THEN rec.pageId
                                         ELSE newPageId(rec.serial)
  IN /\ tasks' = [tasks EXCEPT ![t] =
           [rec EXCEPT !.pc = "done",
                       !.result = IF rec.kind = "import" /\ rec.op = "create"
                                    THEN resultAfterCreate(writeOk)
                                    ELSE "success",
                       !.resultId = responseId,
                       !.keyLog = IF rec.kind = "import" /\ rec.op = "create"
                                    THEN primaryKeyLog(writeOk) ELSE "none"]]
     /\ IF rec.kind = "import"
          THEN /\ IF recordsPrimaryKey(rec.op)
                    THEN recordPrimaryKey(rec.row, responseId, writeOk)
                    ELSE writeOk /\ UNCHANGED sheet
               /\ showSuccessMessage(uiOk)
               /\ isProcessing' = processingAfterRun
               /\ UNCHANGED errorHistory
          ELSE /\ writeOk /\ uiOk
               /\ UNCHANGED <<sheet, lastAlert, isProcessing, errorHistory>>

(* The error of a call thrown to its caller *)
fail(t, rec, error, uiOk) ==
  IF rec.kind = "import"
    THEN failImport(t, rec, error, uiOk)
    ELSE /\ uiOk
         /\ tasks' = [tasks EXCEPT ![t] =
               [rec EXCEPT !.pc = "done", !.result = "failure",
                           !.error = error]]
         /\ UNCHANGED <<lastAlert, isProcessing, errorHistory>>

(* await this.sleep(delay); makeRequestWithRetry(..., retryCount + 1) *)
backoff(t, rec) ==
  tasks' = [tasks EXCEPT ![t] =
     [rec EXCEPT !.pc = "backoff",
                 !.remaining = retryDelay(rec.retryCount),
                 !.sleeps = Append(@, retryDelay(rec.retryCount)),
                 !.retryCount = @ + 1]]

(* One makeRequest of makeRequestWithRetry and everything that follows it   *)
(* synchronously: the return to the caller, or the start of the backoff     *)
(* sleep, or the throw up to the catch of processImport.                    *)
Attempt(t, o, writeOk, uiOk) ==
  /\ \/ tasks[t].pc = "request"
     \/ /\ tasks[t].pc = "backoff"
        /\ tasks[t].remaining = 0
        /\ ~microtasksPending
  /\ Scripted(Append(tasks[t].requests, o))
  /\ LET rec == [tasks[t] EXCEPT !.requests = Append(@, o)]
         response == makeRequest(o)
     IN
     IF response.ok
       THEN succeed(t, rec, writeOk, uiOk)
       ELSE /\ writeOk
            /\ UNCHANGED sheet
            /\ IF retriesExhausted(rec.retryCount)
                 THEN fail(t, rec, response.error, uiOk)
                 ELSE IF shouldRetry(response.error)
                   THEN /\ uiOk
                        /\ backoff(t, rec)
                        /\ UNCHANGED <<lastAlert, isProcessing, errorHistory>>
                   ELSE fail(t, rec, response.error, uiOk)
  /\ UNCHANGED <<sinceLastRequest, started, skipWarned, editRejected>>

----------------------------------------------------------------------------
(* TriggerManager.onEdit *)

EditValues == {"true", "'TRUE'", "false"}

(* value === true || value === 'TRUE' || value === 1 || value === '1' *)
isCheckboxChecked(value) == value \in {"true", "'TRUE'", "1", "'1'"}

(* range.getColumn() === CONSTANTS.COLUMNS.CHECKBOX *)
isCheckboxColumn(column) == column = COLUMN_CHECKBOX

(* An onEdit without the check of the flag *)
alreadyProcessing_unchecked == FALSE

(* A flag that a run sets only after its first await *)
alreadyProcessing_late ==
  isProcessing /\ \A t \in Slots : tasks[t].pc # "config"

(* if (this.processingStatus.isProcessing) return *)
alreadyProcessing == isProcessing

(* rangeOk: e.range.getRow() returns.  It does not when the handler is      *)
(* called with no event object or with one that has no range; the call in   *)
(* the first statement of the try then throws, and so does the same call    *)
(* among the arguments of handleError in the catch.                         *)
OnEdit(rowNumber, column, value, rangeOk, accessOk, uiOk) ==
  IF ~rangeOk
    THEN /\ accessOk /\ uiOk
         /\ editRejected' = TRUE
         /\ UNCHANGED <<sinceLastRequest, isProcessing, errorHistory, sheet,
                        lastAlert, tasks, started, skipWarned>>
  ELSE IF alreadyProcessing
    THEN /\ accessOk /\ uiOk
         /\ skipWarned' = TRUE
         /\ UNCHANGED <<sinceLastRequest, isProcessing, errorHistory, sheet,
                        lastAlert, tasks, started, editRejected>>
    ELSE IF ~isCheckboxColumn(column) \/ ~isCheckboxChecked(value)
      THEN /\ accessOk /\ uiOk
           /\ UNCHANGED vars
      ELSE IF ~accessOk
        THEN /\ started' = started + 1
             /\ handleError(TypedError("PERMISSION_ERROR"), "onEdit",
                            rowNumber, uiOk)
             /\ UNCHANGED <<sinceLastRequest, isProcessing, sheet, tasks,
                            skipWarned, editRejected>>
        ELSE /\ uiOk
             /\ freeSlot
             /\ startImport(nextSlot, rowNumber)
             /\ UNCHANGED <<sinceLastRequest, errorHistory, sheet, lastAlert,
                            skipWarned, editRejected>>

----------------------------------------------------------------------------
(* Time.  It passes only when no microtask is queued.  While a timer is    *)
(* pending, it passes up to the expiry of a pending timer; while none is   *)
(* pending, it passes by IdleStep.                                         *)

Sleeping == {t \in Slots : tasks[t].pc \in {"ratewait", "backoff"}}
Pending == {t \in Sleeping : tasks[t].remaining > 0}

TickSteps ==
  IF Pending # {} THEN {tasks[t].remaining : t \in Pending} ELSE {IdleStep}

elapse(task, d) ==
  [task EXCEPT !.remaining = IF @ > d THEN @ - d ELSE 0]

Tick ==
  /\ ~microtasksPending
  /\ \E d \in TickSteps :
        /\ tasks' = [t \in Slots |-> elapse(tasks[t], d)]
        /\ sinceLastRequest' = Saturated(sinceLastRequest + d)
  /\ UNCHANGED <<isProcessing, errorHistory, sheet, lastAlert, started, skipWarned, editRejected>>

----------------------------------------------------------------------------
(* The TriggerManager: runs started by edit events and by direct calls *)

Next ==
  \/ /\ started < MaxRuns
     /\ \E rowNumber \in Rows, column \in Columns, value \in EditValues,
           accessOk \in BOOLEAN, uiOk \in BOOLEAN :
           OnEdit(rowNumber, column, value, TRUE, accessOk, uiOk)
  \/ /\ started < MaxRuns
     /\ \E rowNumber \in Rows : ProcessImport(rowNumber)
  \/ \E t \in Slots, outcome \in StepOutcomes, errors \in ValidationErrors,
        uiOk \in BOOLEAN :
        ProcessRow(t, TitleAndNote, outcome, errors, uiOk)
  \/ \E t \in Slots : RateLimitWake(t)
  \/ \E t \in Slots, o \in FetchOutcomes, writeOk \in BOOLEAN,
        uiOk \in BOOLEAN :
        Attempt(t, o, writeOk, uiOk)
  \/ Tick

(* A sheet whose identifier slots are all empty *)
BlankSheetInit ==
  /\ Init
  /\ sheet = [r \in Rows |-> EmptyCell]

(* The TriggerManager with every entry point, on a sheet whose slots are    *)
(* empty at first, with well-formed edit events and one mapping list        *)
Spec == BlankSheetInit /\ [][Next]_vars

(* Every queued continuation runs, every expired timer fires, time passes *)
Fairness ==
  /\ \A t \in Slots :
        WF_vars(\E outcome \in StepOutcomes, errors \in ValidationErrors,
                   uiOk \in BOOLEAN :
                  ProcessRow(t, TitleAndNote, outcome, errors, uiOk))
  /\ \A t \in Slots : WF_vars(RateLimitWake(t))
  /\ \A t \in Slots :
        WF_vars(\E o \in FetchOutcomes, writeOk \in BOOLEAN, uiOk \in BOOLEAN :
                  Attempt(t, o, writeOk, uiOk))
  /\ WF_vars(Tick)

(* The TriggerManager under fair scheduling *)
FairSpec == BlankSheetInit /\ [][Next]_vars /\ Fairness

(* The TriggerManager with edit events as its only entry point: the calls  *)
(* of onEdit, in any interleaving with the continuations of the runs they   *)
(* started                                                                   *)
EditNext ==
  \/ /\ started < MaxRuns
     /\ \E rowNumber \in Rows, column \in Columns, value \in EditValues,
           accessOk \in BOOLEAN, uiOk \in BOOLEAN :
           OnEdit(rowNumber, column, value, TRUE, accessOk, uiOk)
  \/ \E t \in Slots, outcome \in StepOutcomes, errors \in ValidationErrors,
        uiOk \in BOOLEAN :
        ProcessRow(t, TitleAndNote, outcome, errors, uiOk)
  \/ \E t \in Slots : RateLimitWake(t)
  \/ \E t \in Slots, o \in FetchOutcomes, writeOk \in BOOLEAN,
        uiOk \in BOOLEAN :
        Attempt(t, o, writeOk, uiOk)
  \/ Tick

EditSpec == BlankSheetInit /\ [][EditNext]_vars

(* The TriggerManager driven by edit events alone: any event, also a       *)
(* malformed one, any content of the identifier slot, any mapping list.     *)
(* An edit arrives no sooner than the rate limiter's interval after the     *)
(* last request, so the one client call of its run never has to wait.       *)
TriggerNext ==
  \/ /\ started < MaxEdits
     /\ sinceLastRequest >= RATE_LIMIT_DELAY
     /\ \E rowNumber \in Rows, column \in Columns, value \in EditValues,
           rangeOk \in BOOLEAN, accessOk \in BOOLEAN, uiOk \in BOOLEAN :
           OnEdit(rowNumber, column, value, rangeOk, accessOk, uiOk)
  \/ \E t \in Slots, mappings \in MappingLists, outcome \in StepOutcomes,
        errors \in ValidationErrors, uiOk \in BOOLEAN :
        ProcessRow(t, mappings, outcome, errors, uiOk)
  \/ \E t \in Slots, o \in FetchOutcomes \cup RefusedOutcomes,
        writeOk \in BOOLEAN, uiOk \in BOOLEAN :
        Attempt(t, o, writeOk, uiOk)
  \/ Tick

TriggerSpec == Init /\ [][TriggerNext]_vars

(* The client called directly *)

ClientNext ==
  \/ \E op \in ClientOps : ClientCall(op)
  \/ \E t \in Slots : RateLimitWake(t)
  \/ \E t \in Slots, o \in FetchOutcomes : Attempt(t, o, TRUE, TRUE)
  \/ Tick

ClientSpec == BlankSheetInit /\ [][ClientNext]_vars

(* Checked edits by a user without access, one row after the other *)

HistoryNext ==
  /\ started < MaxFailures
  /\ \E value \in EditValues, uiOk \in BOOLEAN :
       OnEdit(Min(Rows) + started, COLUMN_CHECKBOX, value, TRUE, FALSE, uiOk)

HistorySpec == BlankSheetInit /\ [][HistoryNext]_vars

----------------------------------------------------------------------------
(* The Validator called directly *)

digits == <<"0", "1", "2", "3", "4", "5", "6", "7", "8", "9">>

isDigit(c) == \E k \in DOMAIN digits : digits[k] = c
digitValue(c) == (CHOOSE k \in DOMAIN digits : digits[k] = c) - 1

(* The value of the digits s, read after the digits whose value is acc, up  *)
(* to the first character that is not a digit                               *)
RECURSIVE parseDigits(_, _)
parseDigits(s, acc) ==
  IF s = << >> \/ ~isDigit(Head(s)) THEN acc
  ELSE parseDigits(Tail(s), acc * 10 + digitValue(Head(s)))

(* parseInt(columnName, 10) of a text without a sign; NaN is given as -1,   *)
(* which getColumnIndex treats as it treats NaN                             *)
parseInt(s) ==
  LET t == trimStart(s) IN
  IF t = << >> \/ ~isDigit(Head(t)) THEN -1 ELSE parseDigits(t, 0)

(* /^[A-Z]+$/i *)
isLetter(c) ==
  \/ \E k \in DOMAIN upperCase : upperCase[k] = c
  \/ \E k \in DOMAIN lowerCase : lowerCase[k] = c
isLetters(s) == s # << >> /\ \A i \in DOMAIN s : isLetter(s[i])

(* upperCol.charCodeAt(i) - 'A'.charCodeAt(0) + 1, after toUpperCase *)
letterNumber(c) ==
  CHOOSE k \in DOMAIN upperCase : upperCase[k] = c \/ lowerCase[k] = c

(* result = result * 26 + letterNumber, over the characters of the name *)
RECURSIVE columnNumber(_, _)
columnNumber(s, result) ==
  IF s = << >> THEN result
  ELSE columnNumber(Tail(s), result * 26 + letterNumber(Head(s)))

(* Validator.getColumnIndex, for a row of the given length *)
getColumnIndex(columnName, length) ==
  LET index == parseInt(columnName) IN
  IF index >= 0 /\ index < length THEN index
  ELSE IF isLetters(columnName)
            /\ columnNumber(columnName, 0) - 1 >= 0
            /\ columnNumber(columnName, 0) - 1 < length
         THEN columnNumber(columnName, 0) - 1
         ELSE -1

(* ['true', 'false', 'yes', 'no', '1', '0', 'on', 'off'] *)
checkboxWords ==
  { <<"t", "r", "u", "e">>, <<"f", "a", "l", "s", "e">>, <<"y", "e", "s">>,
    <<"n", "o">>, <<"1">>, <<"0">>, <<"o", "n">>, <<"o", "f", "f">> }

(* Validator.validateCheckbox: whether the value is valid *)
validateCheckbox(value) ==
  \/ value.type = "boolean"
  \/ value.type = "string" /\ trim(toLowerCase(value.text)) \in checkboxWords
  \/ value.type = "number" /\ parseDigits(value.text, 0) \in {0, 1}

(* The cases of the switch of convertToCheckbox *)
trueWords == { <<"t", "r", "u", "e">>, <<"y", "e", "s">>, <<"1">>, <<"o", "n">> }
falseWords ==
  { <<"f", "a", "l", "s", "e">>, <<"n", "o">>, <<"0">>, <<"o", "f", "f">> }

(* DataMapper.convertToCheckbox: the checkbox property, or that it threw *)
convertToCheckbox(value) ==
  LET lowerValue == trim(toLowerCase(value.text)) IN
  CASE value.type = "boolean" ->
         [threw |-> FALSE, checkbox |-> value.text = <<"t", "r", "u", "e">>]
    [] value.type = "number" ->
         [threw |-> FALSE, checkbox |-> parseDigits(value.text, 0) # 0]
    [] value.type = "string" ->
         [threw |-> lowerValue \notin trueWords \cup falseWords,
          checkbox |-> lowerValue \in trueWords]
    [] OTHER -> [threw |-> TRUE, checkbox |-> FALSE]

(* Values of a checkbox cell: booleans, numbers and texts *)
CheckboxValues ==
  { BooleanCell(<<"t", "r", "u", "e">>), BooleanCell(<<"f", "a", "l", "s", "e">>),
    NumberCell(<<"0">>), NumberCell(<<"1">>), NumberCell(<<"2">>),
    StringCell(<<"t", "r", "u", "e">>), StringCell(<<"F", "a", "l", "s", "e">>),
    StringCell(<<"Y", "E", "S">>), StringCell(<<"n", "o">>),
    StringCell(<<"1">>), StringCell(<<"0">>), StringCell(<<" ", "O", "n", " ">>),
    StringCell(<<"o", "f", "f">>), StringCell(<<"2">>),
    StringCell(<<"m", "a", "y", "b", "e">>), StringCell(<<"o", "n", "e">>) }

(* The mappings given to validateMappings: two spellings of the first and   *)
(* of the third column, a reserved property name, active and inactive       *)
MappingColumns == { <<"A">>, <<"0">>, <<"c">>, <<"C">> }
MappingProperties == { NameProperty, NoteProperty, <<"I", "D">> }
MappingTypes == { "title", "rich_text" }
Mappings ==
  { ColumnMapping(column, property, dataType, isTarget) :
      column \in MappingColumns, property \in MappingProperties,
      dataType \in MappingTypes, isTarget \in BOOLEAN }
MappingInputs ==
  { <<m>> : m \in Mappings } \cup { <<m, n>> : m \in Mappings, n \in Mappings }

(* The cells of the rows the mappings are applied to *)
RowLength == 5

(* Validator.validateMappings(mappings), called once *)
ValidateMappings(t, mappings) ==
  /\ tasks[t].pc = "none"
  /\ LET result == validateMappings(mappings) IN
     tasks' = [tasks EXCEPT ![t] =
        [NoTask EXCEPT !.kind = "validate", !.pc = "done",
                       !.mappings = mappings,
                       !.errors = result.errors,
                       !.result = IF result.valid THEN "success"
                                                  ELSE "failure"]]
  /\ UNCHANGED <<sinceLastRequest, isProcessing, errorHistory, sheet,
                 lastAlert, started, skipWarned, editRejected>>

(* validateCheckbox(value) and convertToCheckbox(value), called once *)
ConvertCheckbox(t, value) ==
  /\ tasks[t].pc = "none"
  /\ tasks' = [tasks EXCEPT ![t] =
        [NoTask EXCEPT !.kind = "checkbox", !.pc = "done",
                       !.rowData = <<value>>,
                       !.result = IF validateCheckbox(value) THEN "success"
                                                             ELSE "failure",
                       !.property = convertToCheckbox(value)]]
  /\ UNCHANGED <<sinceLastRequest, isProcessing, errorHistory, sheet,
                 lastAlert, started, skipWarned, editRejected>>

(* Validator.isEmpty and DataMapper.isEmpty: null, undefined, a string that *)
(* trims to '', NaN                                                         *)
isEmpty(value) == value.type = "string" /\ trim(value.text) = << >>

(* Validator.validateText: a string or a number of at most 2000 characters  *)
validateText(value) ==
  (IF value.type \notin {"string", "number"}
     THEN << "must be text or number" >> ELSE << >>)
  \o (IF Len(value.text) > MAX_TEXT_LENGTH
        THEN << "exceeds maximum length" >> ELSE << >>)

(* Validator.validateCellValue: the errors of one cell under its mapping    *)
validateCellValue(value, mapping) ==
  IF mapping.isRequired /\ isEmpty(value) THEN << "Required field is empty" >>
  ELSE IF isEmpty(value) THEN << >>
  ELSE CASE mapping.dataType \in {"title", "rich_text"} -> validateText(value)
         [] mapping.dataType = "checkbox" ->
              IF validateCheckbox(value) THEN << >>
              ELSE << "must be a boolean value" >>
         [] OTHER -> << "Unknown data type" >>

(* mappings.filter(mapping => mapping.isTarget) *)
targetMappings(columnMappings) ==
  SelectSeq(columnMappings, LAMBDA mapping : mapping.isTarget)

(* The loop of validateRowData over the target mappings, from the i-th on   *)
RECURSIVE validateColumns(_, _, _)
validateColumns(rowData, mappings, i) ==
  IF i > Len(mappings) THEN << >>
  ELSE LET columnIndex == getColumnIndex(mappings[i].spreadsheetColumn,
                                         Len(rowData))
       IN (IF columnIndex = -1
             THEN << "Column not found in row data" >>
             ELSE validateCellValue(rowData[columnIndex + 1], mappings[i]))
          \o validateColumns(rowData, mappings, i + 1)

(* Validator.validateRowData *)
validateRowData(rowData, columnMappings) ==
  LET errors ==
        IF Len(rowData) < DATA_START
          THEN << "Row data must have at least 3 columns" >>
        ELSE IF targetMappings(columnMappings) = << >>
          THEN << "No target column mappings found" >>
        ELSE validateColumns(rowData, targetMappings(columnMappings), 1)
  IN [valid |-> errors = << >>, errors |-> errors]

(* DataMapper.convertToNotionProperty: the property's type and whether the  *)
(* conversion threw; convertToTitle and convertToRichText never throw       *)
convertToNotionProperty(value, mapping) ==
  IF isEmpty(value) THEN [threw |-> FALSE, type |-> mapping.dataType]
  ELSE CASE mapping.dataType \in {"title", "rich_text"} ->
              [threw |-> FALSE, type |-> mapping.dataType]
         [] mapping.dataType = "checkbox" ->
              [threw |-> convertToCheckbox(value).threw, type |-> "checkbox"]
         [] OTHER -> [threw |-> TRUE, type |-> "none"]

(* What mapRowToNotionPage returns or throws: pageData.properties maps a    *)
(* property name to the type of its property                                *)
PageData(properties) ==
  [threw |-> FALSE, message |-> "none", properties |-> properties]
MappingError(message) ==
  [threw |-> TRUE, message |-> message, properties |-> << >>]

(* The loop of mapRowToNotionPage over the target mappings, from the i-th   *)
(* on: a column that is not found and an empty cell that is not required    *)
(* are skipped, a failed conversion throws only for a required field        *)
RECURSIVE mapColumns(_, _, _, _)
mapColumns(rowData, mappings, i, properties) ==
  IF i > Len(mappings) THEN PageData(properties)
  ELSE LET mapping == mappings[i]
           columnIndex == getColumnIndex(mapping.spreadsheetColumn,
                                         Len(rowData))
           cellValue == rowData[columnIndex + 1]
           notionProperty == convertToNotionProperty(cellValue, mapping)
       IN IF columnIndex = -1
            THEN mapColumns(rowData, mappings, i + 1, properties)
          ELSE IF ~mapping.isRequired /\ isEmpty(cellValue)
            THEN mapColumns(rowData, mappings, i + 1, properties)
          ELSE IF ~notionProperty.threw
            THEN mapColumns(rowData, mappings, i + 1,
                   (mapping.notionPropertyName :> notionProperty.type)
                     @@ properties)
          ELSE IF mapping.isRequired
            THEN MappingError("Required field mapping failed")
          ELSE mapColumns(rowData, mappings, i + 1, properties)

(* Object.values(pageData.properties).some(prop => prop.type === 'title')   *)
hasTitle(properties) ==
  \E name \in DOMAIN properties : properties[name] = "title"

(* DataMapper.mapRowToNotionPage *)
mapRowToNotionPage(rowData, columnMappings) ==
  IF ~validateRowData(rowData, columnMappings).valid
    THEN MappingError("Row validation failed")
  ELSE IF targetMappings(columnMappings) = << >>
    THEN MappingError("No target column mappings found")
  ELSE LET pageData == mapColumns(rowData, targetMappings(columnMappings),
                                  1, << >>)
       IN IF pageData.threw THEN pageData
          ELSE IF ~hasTitle(pageData.properties)
            THEN MappingError("No title property found in mapped data")
          ELSE pageData

(* The rows and mapping lists given to validateRowData and                  *)
(* mapRowToNotionPage: the third and fourth cells vary, the mappings read   *)
(* them as title, text or checkbox, required or not, active or not          *)
RowCells ==
  { EmptyCell, StringCell(<<" ">>), StringCell(<<"y", "e", "s">>),
    NumberCell(<<"7">>), BooleanCell(<<"t", "r", "u", "e">>) }
RowInputs ==
  { << BooleanCell(<<"t", "r", "u", "e">>), EmptyCell, c, d, EmptyCell >> :
      c \in RowCells, d \in RowCells }
RowMappings ==
  { [ColumnMapping(column, property, dataType, isTarget)
       EXCEPT !.isRequired = isRequired] :
      column \in { <<"C">>, <<"D">> },
      property \in { NameProperty, NoteProperty },
      dataType \in { "title", "rich_text", "checkbox" },
      isTarget \in BOOLEAN, isRequired \in BOOLEAN }
RowMappingInputs ==
  { <<m>> : m \in RowMappings }
    \cup { <<m, n>> : m \in RowMappings, n \in RowMappings }

(* validateRowData(rowData, mappings) and mapRowToNotionPage(rowData,       *)
(* mappings) on the same inputs, called once                                *)
MapRow(t, rowData, mappings) ==
  /\ tasks[t].pc = "none"
  /\ LET result == validateRowData(rowData, mappings) IN
     tasks' = [tasks EXCEPT ![t] =
        [NoTask EXCEPT !.kind = "map", !.pc = "done",
                       !.rowData = rowData,
                       !.mappings = mappings,
                       !.errors = result.errors,
                       !.result = IF result.valid THEN "success"
                                                  ELSE "failure",
                       !.payload = mapRowToNotionPage(rowData, mappings)]]
  /\ UNCHANGED <<sinceLastRequest, isProcessing, errorHistory, sheet,
                 lastAlert, started, skipWarned, editRejected>>

(* One call per behaviour, made while nothing has been called yet *)
MappingNext ==
  \/ /\ tasks[Min(Slots)].pc = "none"
     /\ \E mappings \in MappingInputs : ValidateMappings(Min(Slots), mappings)
  \/ /\ tasks[Min(Slots)].pc = "none"
     /\ \E value \in CheckboxValues : ConvertCheckbox(Min(Slots), value)
  \/ /\ tasks[Min(Slots)].pc = "none"
     /\ \E rowData \in RowInputs, mappings \in RowMappingInputs :
          MapRow(Min(Slots), rowData, mappings)
MappingSpec == BlankSheetInit /\ [][MappingNext]_vars

----------------------------------------------------------------------------
(* Properties of the client (ClientSpec) *)

MAX_ATTEMPTS == MAX_RETRIES + 1

(* Every fetch of the call in slot t so far was answered with HTTP 429 *)
allRateLimited(t) ==
  /\ tasks[t].requests # << >>
  /\ \A i \in DOMAIN tasks[t].requests : tasks[t].requests[i] = Response(429)

(* C1: an operation whose every attempt receives HTTP 429 issues its HTTP   *)
(* request exactly 4 times (1 + MAX_RETRIES) and then fails with the 429    *)
(* error; it is never in flight after the 4th request and never issues a    *)
(* 5th, although the remote side would answer a 5th.                        *)
C1_RateLimitedFourAttempts ==
  \A t \in Slots :
    allRateLimited(t) =>
      /\ Len(tasks[t].requests) <= MAX_ATTEMPTS
      /\ (Len(tasks[t].requests) = MAX_ATTEMPTS) = (tasks[t].pc = "done")
      /\ tasks[t].pc = "done" =>
           /\ tasks[t].result = "failure"
           /\ tasks[t].error = ApiError(429)
           /\ Len(tasks[t].sleeps) = MAX_RETRIES

C1_Witness ==
  \E t \in Slots :
    /\ allRateLimited(t)
    /\ tasks[t].pc = "done"
    /\ Len(tasks[t].requests) = MAX_ATTEMPTS
    /\ tasks[t].result = "failure"

(* An HTTP 4xx status other than 429 *)
fatalStatus(o) == ~o.threw /\ o.code >= 400 /\ o.code < 500 /\ o.code # 429

(* C2: an attempt answered with a 4xx status other than 429 is the last     *)
(* request of its operation: the call has failed with that status at once,  *)
(* with no backoff sleep after it; when it is the first attempt, the        *)
(* request was issued exactly once.                                         *)
C2_ClientErrorNotRetried ==
  \A t \in Slots :
    \A i \in DOMAIN tasks[t].requests :
      fatalStatus(tasks[t].requests[i]) =>
        /\ i = Len(tasks[t].requests)
        /\ tasks[t].pc = "done"
        /\ tasks[t].result = "failure"
        /\ tasks[t].error = ApiError(tasks[t].requests[i].code)
        /\ Len(tasks[t].sleeps) = i - 1

C2_Witness ==
  \E t \in Slots :
    /\ tasks[t].requests = << Response(400) >>
    /\ tasks[t].pc = "done"
    /\ tasks[t].sleeps = << >>

(* C3: a fetch that throws (a transport-level failure) is retried while     *)
(* attempts remain: after such an attempt, which was not the last allowed   *)
(* one, the operation is in its backoff sleep.                              *)
C3_TransportFailureRetried ==
  \A t \in Slots :
    LET n == Len(tasks[t].requests) IN
    (n > 0 /\ n <= MAX_RETRIES /\ tasks[t].requests[n].threw) =>
      tasks[t].pc = "backoff"

(* C4: every HTTP request of an operation, each retry included, follows a   *)
(* RateLimiter pass of its own: an operation has passed the RateLimiter at  *)
(* least as many times as it has issued requests.                           *)
C4_EveryAttemptGated ==
  \A t \in Slots : Len(tasks[t].requests) <= tasks[t].acquired

(* The call in slot t passes the RateLimiter in this step: it stores        *)
(* lastRequestTime                                                          *)
passesGate(t) == tasks[t].pc # "request" /\ tasks'[t].pc = "request"

(* C5: a call made while no other call is pending, with none made until it  *)
(* passes, passes the RateLimiter no earlier than RATE_LIMIT_DELAY after    *)
(* the time the RateLimiter recorded for the call before it.                *)
C5_SequentialCallsSpaced ==
  [][\A t \in Slots :
       (passesGate(t) /\ tasks'[t].alone) =>
          sinceLastRequest >= RATE_LIMIT_DELAY]_vars

C5_Witness ==
  \E t \in Slots :
    /\ tasks[t].serial > 1
    /\ tasks[t].alone
    /\ tasks[t].waited > 0
    /\ tasks[t].waited < RATE_LIMIT_DELAY
    /\ tasks[t].pc = "request"
    /\ sinceLastRequest = 0

(* C6: calls pending at the same time pass the RateLimiter one at a time,   *)
(* each no earlier than RATE_LIMIT_DELAY after the pass before it.          *)
C6_ConcurrentCallsSpaced ==
  [][\A t \in Slots :
       passesGate(t) => sinceLastRequest >= RATE_LIMIT_DELAY]_vars

----------------------------------------------------------------------------
(* Properties of the TriggerManager (Spec, FairSpec) *)

(* This step is an edit event handled by onEdit *)
onEditStep ==
  \E rowNumber \in Rows, column \in Columns, value \in EditValues,
     rangeOk \in BOOLEAN, accessOk \in BOOLEAN, uiOk \in BOOLEAN :
     OnEdit(rowNumber, column, value, rangeOk, accessOk, uiOk)

runsInFlight == {t \in Slots : InFlight(t) /\ tasks[t].kind = "import"}

(* C8: at most one run of processImport is in flight at any time *)
C8_AtMostOneRun == Cardinality(runsInFlight) <= 1

(* C9: every run of processImport that has begun returns, and in the state  *)
(* it returns to, isProcessing is false.                                    *)
C9_RunReturnsToIdle ==
  \A t \in Slots :
    (t \in runsInFlight) ~> (tasks[t].pc = "done" /\ ~isProcessing)

C9_Witness ==
  \E t \in Slots :
    /\ tasks[t].kind = "import"
    /\ tasks[t].pc = "done"
    /\ tasks[t].result = "failure"
    /\ tasks[t].error = ApiError(429)
    /\ ~isProcessing

(* The run in slot t has read its row *)
hasReadRow(t) == tasks[t].kind = "import" /\ tasks[t].op # "none"

(* C10, as amended: when the slot read by a run holds a string that is not  *)
(* blank, the run calls updatePage with that string trimmed, and never      *)
(* createPage.                                                              *)
C10_NonBlankStringUpdates ==
  \A t \in Slots :
    (hasReadRow(t) /\ tasks[t].pkRead.type = "string"
       /\ trim(tasks[t].pkRead.text) # << >>) =>
      /\ tasks[t].op = "update"
      /\ tasks[t].pageId = trim(tasks[t].pkRead.text)

C10_Witness ==
  \E t \in Slots :
    /\ hasReadRow(t)
    /\ tasks[t].pkRead = StringCell(<<" ", "p", " ">>)
    /\ tasks[t].op = "update"
    /\ tasks[t].pageId = <<"p">>
    /\ tasks[t].pc = "done"
    /\ tasks[t].result = "success"

(* C10, as stated: when the slot read by a run holds a value that is not    *)
(* blank, the run calls updatePage with exactly that value, and never       *)
(* createPage.                                                              *)
C10_NonBlankUpdatesVerbatim ==
  \A t \in Slots :
    (hasReadRow(t) /\ trim(tasks[t].pkRead.text) # << >>) =>
      /\ tasks[t].op = "update"
      /\ tasks[t].pageId = tasks[t].pkRead.text

(* The slot read by the run in slot t is empty or holds only whitespace *)
readBlankSlot(t) ==
  /\ hasReadRow(t)
  /\ tasks[t].pkRead.type = "string"
  /\ trim(tasks[t].pkRead.text) = << >>

(* In this step the run in slot t returns {success: true} *)
reportsSuccess(t) ==
  /\ tasks[t].kind = "import"
  /\ InFlight(t)
  /\ tasks'[t].pc = "done"
  /\ tasks'[t].result = "success"

(* C11, as amended: a run that reads an empty or whitespace-only slot calls *)
(* createPage; in the step in which it reports success it has called        *)
(* setValue with the id createPage returned, and unless that write failed   *)
(* (which is logged, and leaves the sheet as it was) the slot holds that id.*)
C11_CreateThenPersistUnlessWriteFails ==
  [][\A t \in Slots :
       /\ readBlankSlot(t)' => tasks'[t].op = "create"
       /\ (reportsSuccess(t) /\ tasks[t].op = "create") =>
            /\ tasks'[t].keyLog \in {"recorded", "failed"}
            /\ tasks'[t].keyLog = "recorded" =>
                 sheet' = [sheet EXCEPT ![tasks[t].row] =
                                          StringCell(tasks'[t].resultId)]
            /\ tasks'[t].keyLog = "failed" => sheet' = sheet]_vars

C11_Witness ==
  \E t \in Slots :
    /\ readBlankSlot(t)
    /\ tasks[t].pkRead = StringCell(<<" ">>)
    /\ tasks[t].op = "create"
    /\ tasks[t].pc = "done"
    /\ tasks[t].result = "success"
    /\ tasks[t].keyLog = "recorded"
    /\ sheet[tasks[t].row] = StringCell(tasks[t].resultId)

(* C11, as stated: a run that reads an absent or blank slot calls           *)
(* createPage, and in the step in which it reports success the slot holds   *)
(* the id createPage returned.                                              *)
C11_CreateThenPersist ==
  [][\A t \in Slots :
       /\ readBlankSlot(t)' => tasks'[t].op = "create"
       /\ (reportsSuccess(t) /\ tasks[t].op = "create") =>
            sheet'[tasks[t].row] = StringCell(tasks'[t].resultId)]_vars


(* The runs on row r whose createPage succeeded *)
successfulCreates(r) ==
  { t \in Slots : /\ tasks[t].kind = "import"
                  /\ tasks[t].row = r
                  /\ tasks[t].op = "create"
                  /\ tasks[t].result = "success" }

(* C12: across the runs on one row, createPage succeeds at most once *)
C12_CreateSucceedsAtMostOnce ==
  \A r \in Rows : Cardinality(successfulCreates(r)) <= 1

(* The run in slot t has had validateRowData report its row invalid *)
foundInvalid(t) == tasks[t].kind = "import" /\ tasks[t].step = "invalid"

(* C13: a run whose row validateRowData reports invalid has ended as a      *)
(* failure whose error is the VALIDATION_ERROR with all the errors of the   *)
(* validation result joined in its message, and has made no remote call:    *)
(* it has chosen no operation, passed no RateLimiter and sent no request.   *)
C13_InvalidRowFailsWithoutRemoteCall ==
  \A t \in Slots :
    foundInvalid(t) =>
      /\ tasks[t].pc = "done"
      /\ tasks[t].result = "failure"
      /\ tasks[t].error.type = "VALIDATION_ERROR"
      /\ tasks[t].error.message = <<"validation: ">> \o join(tasks[t].errors)
      /\ \A i \in DOMAIN tasks[t].errors :
           \E k \in DOMAIN tasks[t].error.message :
             tasks[t].error.message[k] = tasks[t].errors[i]
      /\ tasks[t].op = "none"
      /\ tasks[t].acquired = 0
      /\ tasks[t].requests = << >>

C13_Witness ==
  \E t \in Slots :
    /\ foundInvalid(t)
    /\ tasks[t].errors = <<"e1", "e2">>
    /\ tasks[t].pc = "done"
    /\ tasks[t].result = "failure"
    /\ \E i \in DOMAIN errorHistory :
         errorHistory[i].error.type = "VALIDATION_ERROR"

(* mapRowToNotionPage has thrown in the run in slot t: the conversion of a  *)
(* required field failed (or no title property was mapped)                  *)
conversionFailed(t) == tasks[t].kind = "import" /\ tasks[t].step = "mappingError"

(* C15: a run in which the conversion of a required field fails has ended   *)
(* as a failure with the MappingError and has sent neither a create nor an  *)
(* update: it has chosen no operation and sent no request.                  *)
C15_ConversionFailureAbortsRow ==
  \A t \in Slots :
    conversionFailed(t) =>
      /\ tasks[t].pc = "done"
      /\ tasks[t].result = "failure"
      /\ tasks[t].error.type = "MAPPING_ERROR"
      /\ tasks[t].op = "none"
      /\ tasks[t].acquired = 0
      /\ tasks[t].requests = << >>

C15_Witness ==
  \E t \in Slots :
    /\ conversionFailed(t)
    /\ tasks[t].pc = "done"
    /\ tasks[t].result = "failure"
    /\ ~isProcessing
    /\ \E i \in DOMAIN errorHistory :
         errorHistory[i].error.type = "MAPPING_ERROR"

(* The run in slot t has loaded a mapping list that validateMappings        *)
(* reports invalid                                                          *)
loadedInvalidMappings(t) ==
  /\ tasks[t].kind = "import"
  /\ tasks[t].mappings # << >>
  /\ ~validateMappings(tasks[t].mappings).valid

(* C14: a run whose mapping list is structurally invalid makes no remote    *)
(* call and no write: it chooses no operation and sends no request, and     *)
(* once it has returned it has failed.                                      *)
C14_InvalidMappingsAbortBeforeRemoteCall ==
  \A t \in Slots :
    loadedInvalidMappings(t) =>
      /\ tasks[t].op = "none"
      /\ tasks[t].requests = << >>
      /\ tasks[t].pc = "done" => tasks[t].result = "failure"

(* In this step the createPage of the run in slot t returns and the write   *)
(* of the returned id into the slot fails                                   *)
createdButNotRecorded(t) ==
  /\ tasks[t].kind = "import"
  /\ InFlight(t)
  /\ tasks[t].op = "create"
  /\ tasks'[t].keyLog = "failed"

(* C16: when createPage succeeds and the write of the returned id fails,    *)
(* the run returns a success result in that step; nothing is appended to    *)
(* the error history and no error dialog is shown (the failure is logged).  *)
C16_WriteFailureDoesNotFailRun ==
  [][\A t \in Slots :
       createdButNotRecorded(t) =>
         /\ tasks'[t].pc = "done"
         /\ tasks'[t].result = "success"
         /\ tasks'[t].error = NoError
         /\ errorHistory' = errorHistory
         /\ lastAlert' # lastAlert => lastAlert'.title = "success"
         /\ sheet' = sheet]_vars

C16_Witness ==
  \E t \in Slots :
    /\ tasks[t].kind = "import"
    /\ tasks[t].op = "create"
    /\ tasks[t].keyLog = "failed"
    /\ tasks[t].pc = "done"
    /\ tasks[t].result = "success"
    /\ errorHistory = << >>
    /\ lastAlert.title = "success"
    /\ sheet[tasks[t].row] = EmptyCell

(* Every run that has returned has returned a result: success with no       *)
(* error, or failure with its error                                         *)
runsReturnResult ==
  \A t \in Slots :
    (tasks[t].kind = "import" /\ tasks[t].pc = "done") =>
      \/ tasks[t].result = "success" /\ tasks[t].error = NoError
      \/ tasks[t].result = "failure" /\ tasks[t].error # NoError

(* C17: no exception escapes: every run that has returned has returned a    *)
(* success or failure result, and the promise of no onEdit call is rejected.*)
C17_NoExceptionEscapes == runsReturnResult /\ ~editRejected

(* In this step the run in slot t returns {success: false} *)
reportsFailure(t) ==
  /\ tasks[t].kind = "import"
  /\ InFlight(t)
  /\ tasks'[t].pc = "done"
  /\ tasks'[t].result = "failure"

(* C18: in the step in which a run ends as a failure, an entry with that    *)
(* failure's error and the context of the run is appended to the error      *)
(* history as its newest entry, the error dialog is called with the         *)
(* message for that error, and isProcessing is false after the step.        *)
C18_FailureRecordedAndNotified ==
  [][\A t \in Slots :
       reportsFailure(t) =>
         /\ errorHistory' # << >>
         /\ errorHistory'[Len(errorHistory')] =
              [error |-> tasks'[t].error, context |-> "processImport",
               rowNumber |-> tasks[t].row]
         /\ lastAlert'.title = "error"
         /\ lastAlert'.message = userMessage(tasks'[t].error)
         /\ ~isProcessing']_vars

C18_Witness ==
  \E t \in Slots :
    /\ tasks[t].kind = "import"
    /\ tasks[t].pc = "done"
    /\ tasks[t].result = "failure"
    /\ tasks[t].error = ApiError(400)
    /\ errorHistory = << [error |-> ApiError(400), context |-> "processImport",
                          rowNumber |-> tasks[t].row] >>
    /\ lastAlert = Alert("error", <<"api">>, TRUE)
    /\ ~isProcessing

(* The row of the i-th failure recorded since construction, under          *)
(* HistorySpec, where the edits go down the sheet one row at a time        *)
failedRow(i) == Min(Rows) + i - 1

(* C19: the error history never holds more than 100 entries; it holds the  *)
(* most recent failures, at most 100 of them, oldest first, so that the    *)
(* 101st failure evicts the first.                                         *)
C19_HistoryKeepsLatestHundred ==
  LET kept == IF started < MAX_ERROR_HISTORY THEN started
              ELSE MAX_ERROR_HISTORY IN
  /\ Len(errorHistory) = kept
  /\ Len(errorHistory) <= 100
  /\ \A i \in 1..Len(errorHistory) :
       errorHistory[i] =
         [error |-> TypedError("PERMISSION_ERROR"), context |-> "onEdit",
          rowNumber |-> failedRow(started - kept + i)]

C19_Witness ==
  /\ started = 102
  /\ Len(errorHistory) = 100
  /\ errorHistory[1].rowNumber = failedRow(3)
  /\ errorHistory[100].rowNumber = failedRow(102)

(* C20: in the step in which a run reports success an entry for that run   *)
(* is appended to the history that the processing status holds, which is   *)
(* errorHistory.                                                           *)
C20_SuccessAppendsToHistory ==
  [][\A t \in Slots :
       reportsSuccess(t) =>
         /\ Len(errorHistory') = Len(errorHistory) + 1
         /\ errorHistory'[Len(errorHistory')].rowNumber = tasks[t].row]_vars

(* The call in slot t gave up after its retries were used up *)
exhausted(t) ==
  /\ t \in Returned
  /\ tasks[t].result = "failure"
  /\ retriesExhausted(tasks[t].retryCount)

(* C21: the error of a call whose retries are exhausted is the error of    *)
(* its last attempt, and its message carries the number of attempts made.  *)
C21_ExhaustedErrorCarriesAttempts ==
  \A t \in Slots :
    exhausted(t) =>
      LET attempts == Len(tasks[t].requests) IN
      /\ tasks[t].error.statusCode = tasks[t].requests[attempts].code
      /\ \E i \in DOMAIN tasks[t].error.message :
           tasks[t].error.message[i] = ToString(attempts)

(* In this step the call in slot t issues an HTTP request *)
issuesRequest(t) == Len(tasks'[t].requests) = Len(tasks[t].requests) + 1

(* In this step the call in slot t begins the sleep before a retry *)
beginsBackoff(t) == issuesRequest(t) /\ tasks'[t].pc = "backoff"

(* C22: the sleep before the n-th retry of a call (n = 1, 2, 3) lasts       *)
(* 1000, 2000 and 4000 ms, the sleeps of a call are taken in that order,    *)
(* and the request of a retry is issued only when the whole of its sleep    *)
(* has elapsed.                                                             *)
C22_BackoffSchedule ==
  [][\A t \in Slots :
       /\ beginsBackoff(t) =>
            LET n == Len(tasks'[t].requests) IN
            /\ n \in 1..3
            /\ tasks'[t].remaining = <<1000, 2000, 4000>>[n]
            /\ tasks'[t].sleeps = SubSeq(<<1000, 2000, 4000>>, 1, n)
       /\ tasks[t].pc = "backoff" /\ tasks[t].remaining > 0 =>
            /\ ~issuesRequest(t)
            /\ tasks'[t].pc = "backoff"
            /\ tasks'[t].remaining <= tasks[t].remaining
       /\ issuesRequest(t) /\ tasks[t].requests # << >> =>
            /\ tasks[t].pc = "backoff"
            /\ tasks[t].remaining = 0]_vars

C22_Witness ==
  \E t \in Slots :
    /\ Len(tasks[t].requests) = 4
    /\ tasks[t].sleeps = <<1000, 2000, 4000>>
    /\ tasks[t].pc = "done"

(* The run in slot t failed on a request answered with the given status *)
refusedWith(t, code) ==
  /\ tasks[t].kind = "import"
  /\ t \in Returned
  /\ tasks[t].result = "failure"
  /\ tasks[t].error = ApiError(code)

(* C23: the message of the failure dialog tells the category of the error: *)
(* the message for a request refused with 401 differs from the message for *)
(* a request refused with 404, and each differs from the message for a     *)
(* validation failure, which carries the joined field errors.              *)
C23_MessagePerCategory ==
  [][\A t \in Slots :
       reportsFailure(t) =>
         /\ tasks'[t].error.type = "VALIDATION_ERROR" =>
              lastAlert'.message =
                <<"data problem: ", "validation: ">> \o join(tasks'[t].errors)
         /\ tasks'[t].error = ApiError(401) =>
              /\ lastAlert'.message # userMessage(ApiError(404))
              /\ lastAlert'.message # userMessage(ValidationError(<<"e1", "e2">>))
         /\ tasks'[t].error = ApiError(404) =>
              /\ lastAlert'.message # userMessage(ApiError(401))
              /\ lastAlert'.message # userMessage(ValidationError(<<"e1", "e2">>))]_vars

----------------------------------------------------------------------------
(* Properties of the Validator (MappingSpec) *)

(* validateMappings was called on a list, and this is the result *)
validated(t) == tasks[t].kind = "validate" /\ tasks[t].pc = "done"

(* The entries of a list that take part in the import *)
active(mappings) == { i \in DOMAIN mappings : mappings[i].isTarget }

exactlyOneActiveTitle(mappings) ==
  Cardinality({ i \in active(mappings) : mappings[i].dataType = "title" }) = 1

(* No two entries have the same column text, nor the same property name *)
noDuplicates(mappings) ==
  \A i, j \in DOMAIN mappings :
    i # j =>
      /\ trim(mappings[i].spreadsheetColumn) # trim(mappings[j].spreadsheetColumn)
      /\ trim(mappings[i].notionPropertyName) #
           trim(mappings[j].notionPropertyName)

sameResolvedColumn(mappings) ==
  \E i, j \in active(mappings) :
    /\ i # j
    /\ getColumnIndex(mappings[i].spreadsheetColumn, RowLength) >= 0
    /\ getColumnIndex(mappings[i].spreadsheetColumn, RowLength) =
         getColumnIndex(mappings[j].spreadsheetColumn, RowLength)

(* C25: a list in which two active entries resolve to the same column      *)
(* index, however the two references are written, is rejected.             *)
C25_SameResolvedColumnRejected ==
  \A t \in Slots :
    validated(t) /\ sameResolvedColumn(tasks[t].mappings) =>
      tasks[t].result = "failure"

(* validateCheckbox and convertToCheckbox were called on the value *)
checkboxChecked(t) == tasks[t].kind = "checkbox" /\ tasks[t].pc = "done"

(* C26: a value is converted to a checkbox property without an error       *)
(* exactly when validateCheckbox takes it for valid.                       *)
C26_CheckboxSetsAgree ==
  \A t \in Slots :
    checkboxChecked(t) =>
      (tasks[t].result = "success") = ~tasks[t].property.threw

----------------------------------------------------------------------------
(* Properties of the re-entrancy guard (EditSpec, Spec) *)

(* This step is a checked edit of the checkbox column by a user with       *)
(* access, handled by onEdit                                               *)
checkedEditStep ==
  \E rowNumber \in Rows, value \in EditValues, uiOk \in BOOLEAN :
    /\ isCheckboxChecked(value)
    /\ OnEdit(rowNumber, COLUMN_CHECKBOX, value, TRUE, TRUE, uiOk)

C28_ProcessingWhileRunInFlight == runsInFlight # {} => isProcessing

----------------------------------------------------------------------------
(* Properties of the identifier slot (TriggerSpec) *)

(* C29: the identifier slot of a row changes only in the step in which a   *)
(* run on that row reports success after createPage answered, and then to  *)
(* the id that createPage returned; a run that calls updatePage and a run  *)
(* that fails leave every slot as it was.                                  *)
C29_SlotWrittenOnlyAfterCreate ==
  [][/\ sheet' # sheet =>
          \E t \in Slots :
            /\ reportsSuccess(t)
            /\ tasks'[t].op = "create"
            /\ tasks'[t].requests[Len(tasks'[t].requests)] = Response(200)
            /\ tasks'[t].resultId = newPageId(tasks'[t].serial)
            /\ sheet' = [sheet EXCEPT ![tasks'[t].row] =
                                        StringCell(tasks'[t].resultId)]
     /\ \A t \in Slots :
          (reportsFailure(t) \/ (reportsSuccess(t) /\ tasks'[t].op = "update"))
            => sheet' = sheet]_vars

C29_Witness ==
  \E t \in Slots :
    /\ tasks[t].kind = "import"
    /\ tasks[t].pc = "done"
    /\ tasks[t].result = "success"
    /\ tasks[t].op = "update"
    /\ tasks[t].pkRead = StringCell(<<" ", "p", " ">>)
    /\ sheet[tasks[t].row] = tasks[t].pkRead

----------------------------------------------------------------------------
(* Properties of row validation and conversion (MappingSpec) *)

mapped(t) == tasks[t].kind = "map" /\ tasks[t].pc = "done"

(* C30: whenever validateRowData returns valid for a row and a mapping      *)
(* list, mapRowToNotionPage on the same row and list returns, without       *)
(* throwing, a payload that holds a title property.                         *)
C30_ValidRowConverts ==
  \A t \in Slots :
    (mapped(t) /\ tasks[t].result = "success")
      => /\ ~tasks[t].payload.threw
         /\ hasTitle(tasks[t].payload.properties)

====
